---- MODULE Spec2Model ----
(***************************************************************************)
(* Mesh routing layer of the ATWINC1500 P2P/mesh driver                    *)
(* (src/part2/winc_p2p.c, src/part2/winc_p2p.h).                           *)
(*                                                                         *)
(* The module-level statics of winc_p2p.c are the state; every API         *)
(* function is a pure operator from (state, arguments, clock reading) to   *)
(* its result, and one action applies it.  The record `out` keeps the      *)
(* arguments and the result of the last call, `link_tx` the datagrams the  *)
(* mesh layer has handed to the socket interface.                          *)
(***************************************************************************)
EXTENDS Integers, Sequences, FiniteSets, TLC

VARIABLES p2p_enabled, mesh_enabled, p2p_mode, routing_table, mesh_seq_num,
          last_beacon_time, time_us, ticks, link_tx, out, main, net

vars == <<p2p_enabled, mesh_enabled, p2p_mode, routing_table, mesh_seq_num,
          last_beacon_time, time_us, ticks, link_tx, out, main, net>>

(***************************************************************************)
(* Program constants (winc_p2p.h) and integer widths.                      *)
(***************************************************************************)
MESH_MAX_NODES == 8
MESH_BEACON_INTERVAL == 5000
MESH_ROUTE_TIMEOUT == 30000
MESH_MAX_HOPS == 4
MESH_MSG_BEACON == 1
MESH_MSG_DATA == 2
P2P_MODE_IDLE == 0
P2P_MODE_LISTEN == 1
MESH_NODE_ID == 1
BROADCAST == 255

U8 == 2^8
U16 == 2^16

(***************************************************************************)
(* The clock.  time_us_32() is a 32-bit microsecond counter: it wraps at   *)
(* 2^32 us = 4294967 ms + 296 us.  The counter is kept as the pair         *)
(* [ms, us] with value ms * 1000 + us (us < 1000), so that no number of    *)
(* the model exceeds 31 bits.                                              *)
(***************************************************************************)
WrapMs == 2^30 \div 250
WrapUs == (2^30 % 250) * 4

\* The counter d milliseconds after t.
AdvanceMs(t, d) ==
    LET ms == t.ms + d
    IN  IF ms < WrapMs \/ (ms = WrapMs /\ t.us < WrapUs)
        THEN [ms |-> ms, us |-> t.us]
        ELSE IF t.us >= WrapUs
             THEN [ms |-> ms - WrapMs, us |-> t.us - WrapUs]
             ELSE [ms |-> ms - WrapMs - 1, us |-> t.us + 1000 - WrapUs]

\* (a - b) > limit in unsigned 32-bit arithmetic, for millisecond readings
\* a, b <= WrapMs and limit < 2^31: when a < b the difference wraps to
\* a - b + 2^32 >= 2^32 - WrapMs, which is above any such limit.
Gt32(a, b, limit) == IF a >= b THEN a - b > limit ELSE TRUE

(***************************************************************************)
(* Bounds of the model.                                                    *)
(***************************************************************************)
MaxTicks == 1
MaxSeq == 2
MaxLoops == 3

(***************************************************************************)
(* Records: MESH_NODE, MESH_ROUTING_TABLE, MESH_PKT_HDR, MESH_BEACON.      *)
(* mac_addr, node_name are never read or written by the mesh code and are  *)
(* left out.                                                               *)
(***************************************************************************)
ZeroNode ==
    [node_id |-> 0, hop_count |-> 0, next_hop |-> 0, last_update |-> 0,
     is_active |-> FALSE]

ZeroTable ==
    [nodes |-> [i \in 0 .. MESH_MAX_NODES - 1 |-> ZeroNode],
     node_count |-> 0, local_node_id |-> 0]

ZeroHdr ==
    [msg_type |-> 0, src_node |-> 0, dst_node |-> 0, hop_count |-> 0,
     seq_num |-> 0, payload_len |-> 0]

ZeroBeacon ==
    [hdr |-> ZeroHdr, node_id |-> 0, neighbors |-> <<>>, neighbor_count |-> 0]

\* The result of the last API call: its name, its arguments (pkt_in, beacon,
\* dst), its return value ("true", "false", or "void"), the header as the
\* call left it (pkt), whether mesh_data_handler ran (delivered), the path
\* mesh_route_packet took (branch) and the next hop it looked up.
NoOut ==
    [op |-> "none", ret |-> "void", pkt_in |-> ZeroHdr, pkt |-> ZeroHdr,
     beacon |-> ZeroBeacon, dst |-> 0, delivered |-> FALSE,
     branch |-> "none", next_hop |-> -1]

\* time_us_32() / 1000
current_time_ms(t) == t.ms

Bool(b) == IF b THEN "true" ELSE "false"

(***************************************************************************)
(* mesh_find_route (winc_p2p.c:390-412).                                   *)
(***************************************************************************)
RECURSIVE FindRouteLoop(_, _, _, _, _)
\* The for loop of mesh_find_route from index i on; best is the index of
\* best_node (-1 for NULL).  Returns the final best index.
FindRouteLoop(rt, dst_node, i, best, min_hops) ==
    IF i >= rt.node_count THEN best
    ELSE IF /\ rt.nodes[i].node_id = dst_node
            /\ rt.nodes[i].is_active
            /\ rt.nodes[i].hop_count < min_hops
         THEN FindRouteLoop(rt, dst_node, i + 1, i, rt.nodes[i].hop_count)
         ELSE FindRouteLoop(rt, dst_node, i + 1, best, min_hops)

mesh_find_route(rt, dst_node) ==
    LET best == FindRouteLoop(rt, dst_node, 0, -1, 255)
    IN  IF best # -1 THEN rt.nodes[best].next_hop ELSE -1

(***************************************************************************)
(* mesh_update_routing_table (winc_p2p.c:347-387).                         *)
(***************************************************************************)
\* Mutant of FindNode: the search loop starts at index 1.
FindNode_SkipFirst(rt, id) ==
    LET hits == {i \in 1 .. rt.node_count - 1 : rt.nodes[i].node_id = id}
    IN  IF hits = {} THEN -1
        ELSE CHOOSE i \in hits : \A j \in hits : i <= j

\* Lines 354-361: index of the first entry whose node_id is id, -1 if none.
FindNode(rt, id) ==
    LET hits == {i \in 0 .. rt.node_count - 1 : rt.nodes[i].node_id = id}
    IN  IF hits = {} THEN -1
        ELSE CHOOSE i \in hits : \A j \in hits : i <= j

\* Mutant of mesh_update_routing_table: the capacity test is <= instead of <.
mesh_update_routing_table_Le(rt, beacon, current_time) ==
    LET found == FindNode(rt, beacon.node_id)
        add   == found = -1 /\ rt.node_count <= MESH_MAX_NODES
        idx   == IF found # -1 THEN found
                 ELSE IF add THEN rt.node_count ELSE -1
        hc    == (beacon.hdr.hop_count + 1) % U8
    IN  IF idx = -1 THEN rt
        ELSE [rt EXCEPT
                !.node_count = IF add THEN @ + 1 ELSE @,
                !.nodes = [i \in 0 .. MESH_MAX_NODES - 1 |->
                    IF i # idx THEN rt.nodes[i]
                    ELSE [rt.nodes[i] EXCEPT
                        !.node_id = IF add THEN beacon.node_id ELSE @,
                        !.hop_count = hc,
                        !.last_update = current_time,
                        !.is_active = TRUE,
                        !.next_hop = IF hc = 1 THEN beacon.node_id ELSE @]]]

\* Mutant of mesh_update_routing_table: at a full table an unknown node
\* takes over the first inactive slot.
mesh_update_routing_table_Evict(rt, beacon, current_time) ==
    LET found == FindNode(rt, beacon.node_id)
        add   == found = -1 /\ rt.node_count < MESH_MAX_NODES
        dead  == {i \in 0 .. rt.node_count - 1 : ~rt.nodes[i].is_active}
        evict == found = -1 /\ ~add /\ dead # {}
        idx   == IF found # -1 THEN found
                 ELSE IF add THEN rt.node_count
                 ELSE IF evict THEN CHOOSE i \in dead : \A j \in dead : i <= j
                 ELSE -1
        hc    == (beacon.hdr.hop_count + 1) % U8
    IN  IF idx = -1 THEN rt
        ELSE [rt EXCEPT
                !.node_count = IF add THEN @ + 1 ELSE @,
                !.nodes[idx] =
                    [@ EXCEPT
                        !.node_id = IF add \/ evict THEN beacon.node_id ELSE @,
                        !.hop_count = hc,
                        !.last_update = current_time,
                        !.is_active = TRUE,
                        !.next_hop = IF hc = 1 THEN beacon.node_id ELSE @]]

\* As mesh_update_routing_table, but only a direct neighbour is marked
\* active.
mesh_update_routing_table_ActiveIfDirect(rt, beacon, current_time) ==
    LET found == FindNode(rt, beacon.node_id)
        add   == found = -1 /\ rt.node_count < MESH_MAX_NODES
        idx   == IF found # -1 THEN found
                 ELSE IF add THEN rt.node_count ELSE -1
        hc    == (beacon.hdr.hop_count + 1) % U8
    IN  IF idx = -1 THEN rt
        ELSE [rt EXCEPT
                !.node_count = IF add THEN @ + 1 ELSE @,
                !.nodes[idx] =
                    [@ EXCEPT
                        !.node_id = IF add THEN beacon.node_id ELSE @,
                        !.hop_count = hc,
                        !.last_update = current_time,
                        !.is_active = (hc = 1),
                        !.next_hop = IF hc = 1 THEN beacon.node_id ELSE @]]

\* As mesh_update_routing_table, but an entry that is found keeps its
\* is_active flag.
mesh_update_routing_table_NoRevive(rt, beacon, current_time) ==
    LET found == FindNode(rt, beacon.node_id)
        add   == found = -1 /\ rt.node_count < MESH_MAX_NODES
        idx   == IF found # -1 THEN found
                 ELSE IF add THEN rt.node_count ELSE -1
        hc    == (beacon.hdr.hop_count + 1) % U8
    IN  IF idx = -1 THEN rt
        ELSE [rt EXCEPT
                !.node_count = IF add THEN @ + 1 ELSE @,
                !.nodes[idx] =
                    [@ EXCEPT
                        !.node_id = IF add THEN beacon.node_id ELSE @,
                        !.hop_count = hc,
                        !.last_update = current_time,
                        !.is_active = IF add THEN TRUE ELSE @,
                        !.next_hop = IF hc = 1 THEN beacon.node_id ELSE @]]

mesh_update_routing_table(rt, beacon, current_time) ==
    LET found == FindNode(rt, beacon.node_id)
        add   == found = -1 /\ rt.node_count < MESH_MAX_NODES
        idx   == IF found # -1 THEN found
                 ELSE IF add THEN rt.node_count ELSE -1
        hc    == (beacon.hdr.hop_count + 1) % U8
    IN  IF idx = -1 THEN rt
        ELSE [rt EXCEPT
                !.node_count = IF add THEN @ + 1 ELSE @,
                !.nodes[idx] =
                    [@ EXCEPT
                        !.node_id = IF add THEN beacon.node_id ELSE @,
                        !.hop_count = hc,
                        !.last_update = current_time,
                        !.is_active = TRUE,
                        !.next_hop = IF hc = 1 THEN beacon.node_id ELSE @]]

\* As Sweep, but the loop starts at slot 1.
Sweep_SkipFirst(rt, current_time) ==
    [rt EXCEPT !.nodes =
        [i \in 0 .. MESH_MAX_NODES - 1 |->
            IF /\ 0 < i /\ i < rt.node_count
               /\ rt.nodes[i].is_active
               /\ Gt32(current_time, rt.nodes[i].last_update, MESH_ROUTE_TIMEOUT)
            THEN [rt.nodes[i] EXCEPT !.is_active = FALSE]
            ELSE rt.nodes[i]]]

\* As Sweep, but an entry aged exactly MESH_ROUTE_TIMEOUT expires too.
Sweep_Ge(rt, current_time) ==
    [rt EXCEPT !.nodes =
        [i \in 0 .. MESH_MAX_NODES - 1 |->
            IF /\ i < rt.node_count
               /\ rt.nodes[i].is_active
               /\ Gt32(current_time, rt.nodes[i].last_update,
                       MESH_ROUTE_TIMEOUT - 1)
            THEN [rt.nodes[i] EXCEPT !.is_active = FALSE]
            ELSE rt.nodes[i]]]

(***************************************************************************)
(* mesh_beacon_handler, the expiry loop (winc_p2p.c:423-433).              *)
(***************************************************************************)
Sweep(rt, current_time) ==
    [rt EXCEPT !.nodes =
        [i \in 0 .. MESH_MAX_NODES - 1 |->
            IF /\ i < rt.node_count
               /\ rt.nodes[i].is_active
               /\ Gt32(current_time, rt.nodes[i].last_update, MESH_ROUTE_TIMEOUT)
            THEN [rt.nodes[i] EXCEPT !.is_active = FALSE]
            ELSE rt.nodes[i]]]

(***************************************************************************)
(* mesh_send_beacon, the beacon it builds (winc_p2p.c:229-251).            *)
(***************************************************************************)
RECURSIVE NeighborLoop_NoActive(_, _, _)
\* As NeighborLoop, but is_active is not tested.
NeighborLoop_NoActive(rt, i, acc) ==
    IF ~(i < rt.node_count /\ Len(acc) < MESH_MAX_NODES) THEN acc
    ELSE IF rt.nodes[i].hop_count = 1
         THEN NeighborLoop_NoActive(rt, i + 1, Append(acc, rt.nodes[i].node_id))
         ELSE NeighborLoop_NoActive(rt, i + 1, acc)

RECURSIVE NeighborLoop(_, _, _)
\* The loop of lines 244-250 from index i on; acc is beacon.neighbors so far.
NeighborLoop(rt, i, acc) ==
    IF ~(i < rt.node_count /\ Len(acc) < MESH_MAX_NODES) THEN acc
    ELSE IF rt.nodes[i].is_active /\ rt.nodes[i].hop_count = 1
         THEN NeighborLoop(rt, i + 1, Append(acc, rt.nodes[i].node_id))
         ELSE NeighborLoop(rt, i + 1, acc)

BuildBeacon(rt, seq) ==
    LET nb == NeighborLoop(rt, 0, <<>>)
    IN  [hdr |-> [msg_type |-> MESH_MSG_BEACON,
                  src_node |-> rt.local_node_id,
                  dst_node |-> BROADCAST,
                  hop_count |-> 0,
                  seq_num |-> seq,
                  payload_len |-> 26],
         node_id |-> rt.local_node_id,
         neighbors |-> nb,
         neighbor_count |-> Len(nb)]

(***************************************************************************)
(* mesh_route_packet (winc_p2p.c:304-344): the return value, the header    *)
(* as the call leaves it, whether mesh_data_handler was called, the path   *)
(* taken and the next hop looked up.  No path calls the socket interface.  *)
(***************************************************************************)
\* Mutant of mesh_route_packet: the hop limit is not tested.
mesh_route_packet_NoHopCheck(rt, pkt) ==
    IF pkt.dst_node = rt.local_node_id
    THEN [ret |-> TRUE, pkt |-> pkt, delivered |-> TRUE,
          branch |-> "local", next_hop |-> -1]
    ELSE LET next_hop == mesh_find_route(rt, pkt.dst_node)
         IN  IF next_hop < 0
             THEN [ret |-> FALSE, pkt |-> pkt, delivered |-> FALSE,
                   branch |-> "no_route", next_hop |-> next_hop]
             ELSE [ret |-> TRUE,
                   pkt |-> [pkt EXCEPT !.hop_count = (@ + 1) % U8],
                   delivered |-> FALSE,
                   branch |-> "forward", next_hop |-> next_hop]

\* Mutant of mesh_route_packet: the hop limit is tested before the
\* destination.
mesh_route_packet_HopFirst(rt, pkt) ==
    IF pkt.hop_count >= MESH_MAX_HOPS
    THEN [ret |-> FALSE, pkt |-> pkt, delivered |-> FALSE,
          branch |-> "hop_limit", next_hop |-> -1]
    ELSE IF pkt.dst_node = rt.local_node_id
    THEN [ret |-> TRUE, pkt |-> pkt, delivered |-> TRUE,
          branch |-> "local", next_hop |-> -1]
    ELSE LET next_hop == mesh_find_route(rt, pkt.dst_node)
         IN  IF next_hop < 0
             THEN [ret |-> FALSE, pkt |-> pkt, delivered |-> FALSE,
                   branch |-> "no_route", next_hop |-> next_hop]
             ELSE [ret |-> TRUE,
                   pkt |-> [pkt EXCEPT !.hop_count = (@ + 1) % U8],
                   delivered |-> FALSE,
                   branch |-> "forward", next_hop |-> next_hop]

\* Mutant of mesh_route_packet: the hop limit test is > instead of >=.
mesh_route_packet_Gt(rt, pkt) ==
    IF pkt.dst_node = rt.local_node_id
    THEN [ret |-> TRUE, pkt |-> pkt, delivered |-> TRUE,
          branch |-> "local", next_hop |-> -1]
    ELSE IF pkt.hop_count > MESH_MAX_HOPS
    THEN [ret |-> FALSE, pkt |-> pkt, delivered |-> FALSE,
          branch |-> "hop_limit", next_hop |-> -1]
    ELSE LET next_hop == mesh_find_route(rt, pkt.dst_node)
         IN  IF next_hop < 0
             THEN [ret |-> FALSE, pkt |-> pkt, delivered |-> FALSE,
                   branch |-> "no_route", next_hop |-> next_hop]
             ELSE [ret |-> TRUE,
                   pkt |-> [pkt EXCEPT !.hop_count = (@ + 1) % U8],
                   delivered |-> FALSE,
                   branch |-> "forward", next_hop |-> next_hop]

\* Mutant of mesh_route_packet: hop_count is incremented before the route
\* lookup.
mesh_route_packet_IncFirst(rt, pkt) ==
    IF pkt.dst_node = rt.local_node_id
    THEN [ret |-> TRUE, pkt |-> pkt, delivered |-> TRUE,
          branch |-> "local", next_hop |-> -1]
    ELSE IF pkt.hop_count >= MESH_MAX_HOPS
    THEN [ret |-> FALSE, pkt |-> pkt, delivered |-> FALSE,
          branch |-> "hop_limit", next_hop |-> -1]
    ELSE LET next_hop == mesh_find_route(rt, pkt.dst_node)
             fwd == [pkt EXCEPT !.hop_count = (@ + 1) % U8]
         IN  IF next_hop < 0
             THEN [ret |-> FALSE, pkt |-> fwd, delivered |-> FALSE,
                   branch |-> "no_route", next_hop |-> next_hop]
             ELSE [ret |-> TRUE, pkt |-> fwd, delivered |-> FALSE,
                   branch |-> "forward", next_hop |-> next_hop]

mesh_route_packet(rt, pkt) ==
    IF pkt.dst_node = rt.local_node_id
    THEN [ret |-> TRUE, pkt |-> pkt, delivered |-> TRUE,
          branch |-> "local", next_hop |-> -1]
    ELSE IF pkt.hop_count >= MESH_MAX_HOPS
    THEN [ret |-> FALSE, pkt |-> pkt, delivered |-> FALSE,
          branch |-> "hop_limit", next_hop |-> -1]
    ELSE LET next_hop == mesh_find_route(rt, pkt.dst_node)
         IN  IF next_hop < 0
             THEN [ret |-> FALSE, pkt |-> pkt, delivered |-> FALSE,
                   branch |-> "no_route", next_hop |-> next_hop]
             ELSE [ret |-> TRUE,
                   pkt |-> [pkt EXCEPT !.hop_count = (@ + 1) % U8],
                   delivered |-> FALSE,
                   branch |-> "forward", next_hop |-> next_hop]

(***************************************************************************)
(* The locals of main in mesh_example.c (lines 135-141, 249, 252): the     *)
(* place in the program, now, last_beacon and loop_count.                  *)
(***************************************************************************)
MainStart ==
    [pc |-> "p2p_enable", now |-> 0, last_beacon |-> 0, loop_count |-> 0]

(***************************************************************************)
(* A mesh of nodes, each with the routing table mesh_init(n) leaves, and   *)
(* one data packet: its header, the node that holds it (at), its state and *)
(* the number of times it has been forwarded.                              *)
(***************************************************************************)
NetNodes == {0, 2, 3}

NetStart ==
    [rt |-> [n \in NetNodes |-> [ZeroTable EXCEPT !.local_node_id = n]],
     hdr |-> ZeroHdr, at |-> -1, state |-> "none", forwards |-> 0]

(***************************************************************************)
(* Initial state: the static initialisers of winc_p2p.c:19-25, the         *)
(* microsecond timer at 0.                                                 *)
(***************************************************************************)
Init ==
    /\ p2p_enabled = FALSE
    /\ mesh_enabled = FALSE
    /\ p2p_mode = P2P_MODE_IDLE
    /\ routing_table = ZeroTable
    /\ mesh_seq_num = 0
    /\ last_beacon_time = 0
    /\ time_us = [ms |-> 0, us |-> 0]
    /\ ticks = 0
    /\ link_tx = <<>>
    /\ out = NoOut
    /\ main = MainStart
    /\ net = NetStart

\* An API call made on its own: the locals of main and the other nodes of
\* the mesh are not involved.
Alone(A) == A /\ UNCHANGED <<main, net>>

now == current_time_ms(time_us)

\* The calls that take a sequence number are followed for the first MaxSeq
\* values of the counter and for the last MaxSeq values before it wraps.
SeqInBound == mesh_seq_num < MaxSeq \/ mesh_seq_num >= U16 - MaxSeq

(***************************************************************************)
(* The 32-bit microsecond timer advances by d milliseconds.                *)
(***************************************************************************)
Tick(d) ==
    /\ ticks < MaxTicks
    /\ time_us' = AdvanceMs(time_us, d)
    /\ ticks' = ticks + 1
    /\ UNCHANGED <<p2p_enabled, mesh_enabled, p2p_mode, routing_table,
                   mesh_seq_num, last_beacon_time, link_tx, out>>

(***************************************************************************)
(* p2p_enable / p2p_disable (winc_p2p.c:30-77); ok is hif_put's result.    *)
(***************************************************************************)
P2pEnable(ok) ==
    /\ p2p_enabled' = IF ok THEN TRUE ELSE p2p_enabled
    /\ p2p_mode' = IF ok THEN P2P_MODE_IDLE ELSE p2p_mode
    /\ out' = [NoOut EXCEPT !.op = "p2p_enable", !.ret = Bool(ok)]
    /\ UNCHANGED <<mesh_enabled, routing_table, mesh_seq_num,
                   last_beacon_time, time_us, ticks, link_tx>>

P2pDisable(ok) ==
    /\ p2p_enabled' = IF ok THEN FALSE ELSE p2p_enabled
    /\ p2p_mode' = IF ok THEN P2P_MODE_IDLE ELSE p2p_mode
    /\ out' = [NoOut EXCEPT !.op = "p2p_disable", !.ret = Bool(ok)]
    /\ UNCHANGED <<mesh_enabled, routing_table, mesh_seq_num,
                   last_beacon_time, time_us, ticks, link_tx>>

(***************************************************************************)
(* mesh_init (winc_p2p.c:170-186).                                         *)
(***************************************************************************)
MeshInit(node_id) ==
    /\ routing_table' = [ZeroTable EXCEPT !.local_node_id = node_id]
    /\ mesh_seq_num' = 0
    /\ last_beacon_time' = 0
    /\ out' = [NoOut EXCEPT !.op = "mesh_init", !.ret = "true"]
    /\ UNCHANGED <<p2p_enabled, mesh_enabled, p2p_mode, time_us, ticks,
                   link_tx>>

(***************************************************************************)
(* mesh_enable (winc_p2p.c:189-207), with its call of p2p_start_listen     *)
(* (winc_p2p.c:80-96), and mesh_disable (winc_p2p.c:210-218).              *)
(***************************************************************************)
MeshEnable ==
    /\ IF ~p2p_enabled
       THEN /\ out' = [NoOut EXCEPT !.op = "mesh_enable", !.ret = "false"]
            /\ UNCHANGED <<mesh_enabled, last_beacon_time, p2p_mode>>
       ELSE /\ mesh_enabled' = TRUE
            /\ last_beacon_time' = now
            /\ p2p_mode' = P2P_MODE_LISTEN
            /\ out' = [NoOut EXCEPT !.op = "mesh_enable", !.ret = "true"]
    /\ UNCHANGED <<p2p_enabled, routing_table, mesh_seq_num, time_us, ticks,
                   link_tx>>

MeshDisable ==
    /\ mesh_enabled' = FALSE
    /\ out' = [NoOut EXCEPT !.op = "mesh_disable", !.ret = "true"]
    /\ UNCHANGED <<p2p_enabled, p2p_mode, routing_table, mesh_seq_num,
                   last_beacon_time, time_us, ticks, link_tx>>

(***************************************************************************)
(* mesh_send_beacon (winc_p2p.c:221-263).                                  *)
(***************************************************************************)
\* As MeshSendBeacon, but the counter is incremented before the header is
\* stamped.
MeshSendBeacon_PreInc ==
    /\ SeqInBound
    /\ IF ~mesh_enabled
       THEN /\ out' = [NoOut EXCEPT !.op = "mesh_send_beacon", !.ret = "false"]
            /\ UNCHANGED <<mesh_seq_num, last_beacon_time>>
       ELSE /\ mesh_seq_num' = (mesh_seq_num + 1) % U16
            /\ last_beacon_time' = now
            /\ out' = [NoOut EXCEPT !.op = "mesh_send_beacon", !.ret = "true",
                          !.beacon = BuildBeacon(routing_table, mesh_seq_num')]
    /\ UNCHANGED <<p2p_enabled, mesh_enabled, p2p_mode, routing_table,
                   time_us, ticks, link_tx>>

MeshSendBeacon ==
    /\ SeqInBound
    /\ IF ~mesh_enabled
       THEN /\ out' = [NoOut EXCEPT !.op = "mesh_send_beacon", !.ret = "false"]
            /\ UNCHANGED <<mesh_seq_num, last_beacon_time>>
       ELSE /\ mesh_seq_num' = (mesh_seq_num + 1) % U16
            /\ last_beacon_time' = now
            /\ out' = [NoOut EXCEPT !.op = "mesh_send_beacon", !.ret = "true",
                          !.beacon = BuildBeacon(routing_table, mesh_seq_num)]
    /\ UNCHANGED <<p2p_enabled, mesh_enabled, p2p_mode, routing_table,
                   time_us, ticks, link_tx>>

(***************************************************************************)
(* mesh_send_data (winc_p2p.c:266-301).                                    *)
(***************************************************************************)
\* As MeshSendData, but the sequence number is taken before the route is
\* looked up.
MeshSendData_SeqFirst(dst_node, len) ==
    /\ SeqInBound
    /\ LET next_hop == mesh_find_route(routing_table, dst_node)
       IN  IF ~mesh_enabled
           THEN /\ out' = [NoOut EXCEPT !.op = "mesh_send_data",
                              !.ret = "false", !.dst = dst_node,
                              !.branch = "not_enabled"]
                /\ UNCHANGED mesh_seq_num
           ELSE /\ mesh_seq_num' = (mesh_seq_num + 1) % U16
                /\ out' = IF next_hop < 0
                          THEN [NoOut EXCEPT !.op = "mesh_send_data",
                                   !.ret = "false", !.dst = dst_node,
                                   !.branch = "no_route"]
                          ELSE [NoOut EXCEPT !.op = "mesh_send_data",
                                   !.ret = "true", !.dst = dst_node,
                                   !.branch = "send", !.next_hop = next_hop,
                                   !.pkt = [msg_type |-> MESH_MSG_DATA,
                                            src_node |-> routing_table.local_node_id,
                                            dst_node |-> dst_node,
                                            hop_count |-> 0,
                                            seq_num |-> mesh_seq_num,
                                            payload_len |-> len]]
    /\ UNCHANGED <<p2p_enabled, mesh_enabled, p2p_mode, routing_table,
                   last_beacon_time, time_us, ticks, link_tx>>

MeshSendData(dst_node, len) ==
    /\ SeqInBound
    /\ LET next_hop == mesh_find_route(routing_table, dst_node)
       IN  IF ~mesh_enabled \/ next_hop < 0
           THEN /\ out' = [NoOut EXCEPT !.op = "mesh_send_data",
                              !.ret = "false", !.dst = dst_node,
                              !.branch = IF ~mesh_enabled THEN "not_enabled"
                                         ELSE "no_route"]
                /\ UNCHANGED mesh_seq_num
           ELSE /\ mesh_seq_num' = (mesh_seq_num + 1) % U16
                /\ out' = [NoOut EXCEPT !.op = "mesh_send_data",
                              !.ret = "true", !.dst = dst_node,
                              !.branch = "send", !.next_hop = next_hop,
                              !.pkt = [msg_type |-> MESH_MSG_DATA,
                                       src_node |-> routing_table.local_node_id,
                                       dst_node |-> dst_node,
                                       hop_count |-> 0,
                                       seq_num |-> mesh_seq_num,
                                       payload_len |-> len]]
    /\ UNCHANGED <<p2p_enabled, mesh_enabled, p2p_mode, routing_table,
                   last_beacon_time, time_us, ticks, link_tx>>

(***************************************************************************)
(* mesh_route_packet (winc_p2p.c:304-344) on the header pkt.               *)
(***************************************************************************)
MeshRoutePacket(pkt) ==
    /\ LET r == mesh_route_packet(routing_table, pkt)
       IN  out' = [NoOut EXCEPT !.op = "mesh_route_packet",
                      !.ret = IF r.ret THEN "true" ELSE "false",
                      !.pkt_in = pkt, !.pkt = r.pkt,
                      !.delivered = r.delivered, !.branch = r.branch,
                      !.next_hop = r.next_hop]
    /\ UNCHANGED <<p2p_enabled, mesh_enabled, p2p_mode, routing_table,
                   mesh_seq_num, last_beacon_time, time_us, ticks, link_tx>>

(***************************************************************************)
(* mesh_update_routing_table (winc_p2p.c:347-387) on a received beacon.    *)
(***************************************************************************)
MeshUpdateRoutingTable(beacon) ==
    /\ routing_table' = mesh_update_routing_table(routing_table, beacon, now)
    /\ out' = [NoOut EXCEPT !.op = "mesh_update_routing_table",
                  !.beacon = beacon,
                  !.branch =
                      LET found == FindNode(routing_table, beacon.node_id)
                      IN  IF found # -1
                          THEN IF routing_table.nodes[found].is_active
                               THEN "refresh" ELSE "revive"
                          ELSE IF routing_table.node_count < MESH_MAX_NODES
                               THEN "add" ELSE "full"]
    /\ UNCHANGED <<p2p_enabled, mesh_enabled, p2p_mode, mesh_seq_num,
                   last_beacon_time, time_us, ticks, link_tx>>

(***************************************************************************)
(* mesh_find_route (winc_p2p.c:390-412) called on its own.                 *)
(***************************************************************************)
MeshFindRoute(dst_node) ==
    /\ out' = [NoOut EXCEPT !.op = "mesh_find_route", !.dst = dst_node,
                  !.next_hop = mesh_find_route(routing_table, dst_node)]
    /\ UNCHANGED <<p2p_enabled, mesh_enabled, p2p_mode, routing_table,
                   mesh_seq_num, last_beacon_time, time_us, ticks, link_tx>>

(***************************************************************************)
(* mesh_beacon_handler (winc_p2p.c:415-440): the expiry loop, then the     *)
(* periodic beacon through mesh_send_beacon.                               *)
(***************************************************************************)
MeshBeaconHandler ==
    /\ IF ~mesh_enabled
       THEN /\ out' = [NoOut EXCEPT !.op = "mesh_beacon_handler"]
            /\ UNCHANGED <<routing_table, mesh_seq_num, last_beacon_time>>
       ELSE /\ routing_table' = Sweep(routing_table, now)
            /\ IF Gt32(now, last_beacon_time, MESH_BEACON_INTERVAL)
               THEN /\ mesh_seq_num' = (mesh_seq_num + 1) % U16
                    /\ last_beacon_time' = now
                    /\ out' = [NoOut EXCEPT !.op = "mesh_beacon_handler",
                                  !.branch = "beacon",
                                  !.beacon = BuildBeacon(routing_table',
                                                         mesh_seq_num)]
               ELSE /\ out' = [NoOut EXCEPT !.op = "mesh_beacon_handler"]
                    /\ UNCHANGED <<mesh_seq_num, last_beacon_time>>
    /\ UNCHANGED <<p2p_enabled, mesh_enabled, p2p_mode, time_us, ticks,
                   link_tx>>

(***************************************************************************)
(* Inputs.                                                                 *)
(***************************************************************************)
\* A received beacon whose body names node n and whose header carries hop
\* count h.
Beacon(n, h) ==
    [hdr |-> [msg_type |-> MESH_MSG_BEACON, src_node |-> n,
              dst_node |-> BROADCAST, hop_count |-> h, seq_num |-> 0,
              payload_len |-> 26],
     node_id |-> n, neighbors |-> <<>>, neighbor_count |-> 0]

\* A received data packet header.
Packet(dst, h) ==
    [msg_type |-> MESH_MSG_DATA, src_node |-> 5, dst_node |-> dst,
     hop_count |-> h, seq_num |-> 7, payload_len |-> 3]

\* Spec: the routing table under beacon ingest, expiry and lookup.
Beacons == {Beacon(2, 0), Beacon(2, 254), Beacon(MESH_NODE_ID, 0),
            Beacon(BROADCAST, 0)}
Dsts == {MESH_NODE_ID, 2, 3}
\* One step of the timer: just past the route timeout.
TickSteps == {MESH_ROUTE_TIMEOUT + 1}

Next ==
    \/ \E d \in TickSteps : Alone(Tick(d))
    \/ \E ok \in BOOLEAN : Alone(P2pEnable(ok))
    \/ Alone(MeshInit(MESH_NODE_ID))
    \/ Alone(MeshEnable)
    \/ Alone(MeshDisable)
    \/ \E b \in Beacons : Alone(MeshUpdateRoutingTable(b))
    \/ \E d \in Dsts : Alone(MeshFindRoute(d))
    \/ Alone(MeshBeaconHandler)

Spec == Init /\ [][Next]_vars

\* SpecFwd: the packet forwarder over a table of direct and multi-hop
\* entries; node 4 never sends a beacon.
FwdBeacons == {Beacon(2, 0), Beacon(2, 254), Beacon(3, 0)}
PacketDsts == {MESH_NODE_ID, 2, 3, 4}
PacketHops == {0, MESH_MAX_HOPS - 1, MESH_MAX_HOPS, 255}

NextFwd ==
    \/ \E d \in TickSteps : Alone(Tick(d))
    \/ Alone(P2pEnable(TRUE))
    \/ Alone(MeshInit(MESH_NODE_ID))
    \/ Alone(MeshEnable)
    \/ \E b \in FwdBeacons : Alone(MeshUpdateRoutingTable(b))
    \/ Alone(MeshBeaconHandler)
    \/ \E d \in PacketDsts : Alone(MeshSendData(d, 3))
    \/ \E d \in PacketDsts, h \in PacketHops : Alone(MeshRoutePacket(Packet(d, h)))

SpecFwd == Init /\ [][NextFwd]_vars

\* SpecFull: a table filled to capacity.  Nine nodes send beacons with hop
\* count 0, as mesh_send_beacon builds them.  The code compares node ids for
\* equality only, so the nodes join in the order of their ids; node 2 keeps
\* sending beacons after it has joined, and so does a node that was refused.
FullSenders == 2 .. MESH_MAX_NODES + 2

Known(n) == FindNode(routing_table, n) # -1

JoinOrRefresh(n) ==
    /\ Known(n) => n = 2
    /\ ~Known(n) => \A m \in FullSenders : m < n => Known(m)
    /\ MeshUpdateRoutingTable(Beacon(n, 0))

NextFull ==
    \/ \E d \in TickSteps : Alone(Tick(d))
    \/ Alone(P2pEnable(TRUE))
    \/ Alone(MeshInit(MESH_NODE_ID))
    \/ Alone(MeshEnable)
    \/ \E n \in FullSenders : Alone(JoinOrRefresh(n))
    \/ Alone(MeshBeaconHandler)

SpecFull == Init /\ [][NextFull]_vars

\* SpecTime: entries of two direct neighbours that age by exactly
\* MESH_ROUTE_TIMEOUT ms or by one ms more between two handler calls.
TimeSteps == {MESH_ROUTE_TIMEOUT, MESH_ROUTE_TIMEOUT + 1}
TimeBeacons == {Beacon(2, 0), Beacon(3, 0)}

NextTime ==
    \/ \E d \in TimeSteps : Alone(Tick(d))
    \/ Alone(P2pEnable(TRUE))
    \/ Alone(MeshInit(MESH_NODE_ID))
    \/ Alone(MeshEnable)
    \/ \E b \in TimeBeacons : Alone(MeshUpdateRoutingTable(b))
    \/ Alone(MeshBeaconHandler)

SpecTime == Init /\ [][NextTime]_vars

\* SpecApi: every function of the mesh API, called in any order, with the
\* mesh enabled or not.  Node 2 is a direct neighbour, node 3 is two hops
\* away.
ApiBeacons == {Beacon(2, 0), Beacon(3, 1)}
ApiDsts == {MESH_NODE_ID, 2}

NextApi ==
    \/ \E d \in TickSteps : Alone(Tick(d))
    \/ Alone(P2pEnable(TRUE))
    \/ Alone(MeshInit(MESH_NODE_ID))
    \/ Alone(MeshEnable)
    \/ Alone(MeshDisable)
    \/ Alone(MeshSendBeacon)
    \/ \E d \in ApiDsts : Alone(MeshSendData(d, 3))
    \/ \E d \in ApiDsts : Alone(MeshRoutePacket(Packet(d, 0)))
    \/ \E b \in ApiBeacons : Alone(MeshUpdateRoutingTable(b))
    \/ Alone(MeshFindRoute(2))
    \/ Alone(MeshBeaconHandler)

SpecApi == Init /\ [][NextApi]_vars

\* SpecLive: the main loop of winc_pico_part2.c (lines 200-219) calls
\* mesh_beacon_handler in every iteration while the clock advances.  Node 2
\* sends its last beacon before the clock's last step; node 3 keeps sending.
\* The mesh is never disabled.
LiveIngest ==
    \/ ticks < MaxTicks /\ MeshUpdateRoutingTable(Beacon(2, 0))
    \/ MeshUpdateRoutingTable(Beacon(3, 0))

LiveTick == \E d \in TickSteps : Alone(Tick(d))

LiveHandler == Alone(MeshBeaconHandler)

NextLive ==
    \/ LiveTick
    \/ Alone(P2pEnable(TRUE))
    \/ Alone(MeshInit(MESH_NODE_ID))
    \/ Alone(MeshEnable)
    \/ Alone(LiveIngest)
    \/ LiveHandler
    \/ Alone(MeshFindRoute(2))
    \/ Alone(MeshSendData(2, 3))
    \/ Alone(MeshRoutePacket(Packet(2, 0)))

\* SpecHops: beacons whose header carries hop count 0, 1 or 255, and the
\* route lookups, sends and forwards that read the entries they leave.
HopBeacons == {Beacon(2, 0), Beacon(2, 1), Beacon(2, 255), Beacon(3, 1)}
HopDsts == {2, 3}

NextHops ==
    \/ \E d \in TickSteps : Alone(Tick(d))
    \/ Alone(P2pEnable(TRUE))
    \/ Alone(MeshInit(MESH_NODE_ID))
    \/ Alone(MeshEnable)
    \/ \E b \in HopBeacons : Alone(MeshUpdateRoutingTable(b))
    \/ \E d \in HopDsts : Alone(MeshFindRoute(d))
    \/ \E d \in HopDsts : Alone(MeshSendData(d, 3))
    \/ \E d \in HopDsts : Alone(MeshRoutePacket(Packet(d, 0)))
    \/ Alone(MeshBeaconHandler)

SpecHops == Init /\ [][NextHops]_vars

\* SpecWrap: the clock at its wrap-around.  The node has been up for
\* WrapMs - 5 ms and has just gone through p2p_enable, mesh_init and
\* mesh_enable; 10 ms later the microsecond counter has wrapped and the
\* millisecond reading starts again near 0.
WrapStart == AdvanceMs([ms |-> 0, us |-> 0], WrapMs - 5)
WrapSteps == {10}

InitWrap ==
    /\ p2p_enabled = TRUE
    /\ mesh_enabled = TRUE
    /\ p2p_mode = P2P_MODE_LISTEN
    /\ routing_table = [ZeroTable EXCEPT !.local_node_id = MESH_NODE_ID]
    /\ mesh_seq_num = 0
    /\ last_beacon_time = current_time_ms(WrapStart)
    /\ time_us = WrapStart
    /\ ticks = 0
    /\ link_tx = <<>>
    /\ out = NoOut
    /\ main = MainStart
    /\ net = NetStart

NextWrap ==
    \/ \E d \in WrapSteps : Alone(Tick(d))
    \/ Alone(MeshEnable)
    \/ Alone(MeshDisable)
    \/ \E b \in TimeBeacons : Alone(MeshUpdateRoutingTable(b))
    \/ Alone(MeshFindRoute(2))
    \/ Alone(MeshBeaconHandler)

SpecWrap == InitWrap /\ [][NextWrap]_vars

\* SpecP2p: p2p_enable, p2p_disable, mesh_init, mesh_enable and
\* mesh_disable called in any order, the radio command of p2p_enable and
\* p2p_disable succeeding or failing.
NextP2p ==
    \/ \E d \in TickSteps : Alone(Tick(d))
    \/ \E ok \in BOOLEAN : Alone(P2pEnable(ok))
    \/ \E ok \in BOOLEAN : Alone(P2pDisable(ok))
    \/ Alone(MeshInit(MESH_NODE_ID))
    \/ Alone(MeshEnable)
    \/ Alone(MeshDisable)
    \/ Alone(MeshBeaconHandler)

SpecP2p == Init /\ [][NextP2p]_vars

\* SpecSeq: the sequence counter at its start and at its wrap.  The node has
\* gone through p2p_enable, mesh_init and mesh_enable and has sent either no
\* message yet or U16 - MaxSeq beacons, all at clock 0.
InitSeq ==
    /\ p2p_enabled = TRUE
    /\ mesh_enabled = TRUE
    /\ p2p_mode = P2P_MODE_LISTEN
    /\ routing_table = [ZeroTable EXCEPT !.local_node_id = MESH_NODE_ID]
    /\ mesh_seq_num \in {0, U16 - MaxSeq}
    /\ last_beacon_time = 0
    /\ time_us = [ms |-> 0, us |-> 0]
    /\ ticks = 0
    /\ link_tx = <<>>
    /\ out = NoOut
    /\ main = MainStart
    /\ net = NetStart

NextSeq ==
    \/ \E d \in TickSteps : Alone(Tick(d))
    \/ Alone(MeshInit(MESH_NODE_ID))
    \/ Alone(MeshEnable)
    \/ Alone(MeshDisable)
    \/ Alone(MeshUpdateRoutingTable(Beacon(2, 0)))
    \/ Alone(MeshSendBeacon)
    \/ \E d \in ApiDsts : Alone(MeshSendData(d, 3))
    \/ Alone(MeshBeaconHandler)

SpecSeq == InitSeq /\ [][NextSeq]_vars

\* SpecLoop: main of mesh_example.c.  After p2p_enable, mesh_init and
\* mesh_enable (lines 189-211) the loop of lines 250-285 reads the clock
\* into now, serves the radio's interrupt, sends a beacon on its own timer
\* last_beacon, calls mesh_beacon_handler and sleeps.  Time passes while the
\* interrupt is served and during the sleep.
Elapse(d) ==
    /\ time_us' = AdvanceMs(time_us, d)
    /\ UNCHANGED <<p2p_enabled, mesh_enabled, p2p_mode, routing_table,
                   mesh_seq_num, last_beacon_time, ticks, link_tx, out, net>>

IrqSteps == {0, 2}
SleepMs == 10
SleepSteps == {SleepMs, MESH_BEACON_INTERVAL - 1}

MainP2pEnable ==
    /\ main.pc = "p2p_enable"
    /\ \E ok \in BOOLEAN :
          /\ P2pEnable(ok)
          /\ main' = [main EXCEPT !.pc = IF ok THEN "mesh_init" ELSE "exit"]
    /\ UNCHANGED net

MainMeshInit ==
    /\ main.pc = "mesh_init"
    /\ MeshInit(MESH_NODE_ID)
    /\ main' = [main EXCEPT !.pc = "mesh_enable"]
    /\ UNCHANGED net

MainMeshEnable ==
    /\ main.pc = "mesh_enable"
    /\ MeshEnable
    /\ main' = [main EXCEPT !.pc = IF out'.ret = "true" THEN "read_now"
                                   ELSE "exit"]
    /\ UNCHANGED net

\* uint32_t now = time_us_32() / 1000;
MainReadNow ==
    /\ main.pc = "read_now"
    /\ main' = [main EXCEPT !.now = now, !.pc = "irq"]
    /\ UNCHANGED <<p2p_enabled, mesh_enabled, p2p_mode, routing_table,
                   mesh_seq_num, last_beacon_time, time_us, ticks, link_tx,
                   out, net>>

\* if (read_irq() == 0) interrupt_handler();
MainIrq(d) ==
    /\ main.pc = "irq"
    /\ Elapse(d)
    /\ main' = [main EXCEPT !.pc = "beacon"]

\* if (now - last_beacon > MESH_BEACON_INTERVAL) { mesh_send_beacon(fd);
\* last_beacon = now; }
MainBeacon ==
    /\ main.pc = "beacon"
    /\ IF Gt32(main.now, main.last_beacon, MESH_BEACON_INTERVAL)
       THEN /\ MeshSendBeacon
            /\ main' = [main EXCEPT !.last_beacon = main.now,
                                    !.pc = "handler"]
       ELSE /\ main' = [main EXCEPT !.pc = "handler"]
            /\ UNCHANGED <<p2p_enabled, mesh_enabled, p2p_mode,
                           routing_table, mesh_seq_num, last_beacon_time,
                           time_us, ticks, link_tx, out>>
    /\ UNCHANGED net

MainHandler ==
    /\ main.pc = "handler"
    /\ MeshBeaconHandler
    /\ main' = [main EXCEPT !.pc = "sleep"]
    /\ UNCHANGED net

\* loop_count++; sleep_ms(10);  A step longer than SleepMs stands for a run
\* of iterations none of which sends a beacon: SleepMs before its end
\* neither timer has run out.
MainSleep(d) ==
    /\ main.pc = "sleep"
    /\ main.loop_count < MaxLoops
    /\ d > SleepMs
       => LET t == current_time_ms(AdvanceMs(time_us, d - SleepMs))
          IN  /\ ~Gt32(t, main.last_beacon, MESH_BEACON_INTERVAL)
              /\ ~Gt32(t, last_beacon_time, MESH_BEACON_INTERVAL)
    /\ Elapse(d)
    /\ main' = [main EXCEPT !.loop_count = @ + 1, !.pc = "read_now"]

NextLoop ==
    \/ MainP2pEnable
    \/ MainMeshInit
    \/ MainMeshEnable
    \/ MainReadNow
    \/ \E d \in IrqSteps : MainIrq(d)
    \/ MainBeacon
    \/ MainHandler
    \/ \E d \in SleepSteps : MainSleep(d)

SpecLoop == Init /\ [][NextLoop]_vars

\* SpecMesh: nodes 0, 2 and 3, each with its own routing table.  Nodes 0
\* and 2 learn of node 3 from beacons that carry hop count 0 or 1, at any
\* time, and send data packets to node 3, one at a time.  A packet that a
\* node hands to the link reaches the node named as next hop, which calls
\* mesh_route_packet on it.  An entry stored with hop_count 2 keeps the
\* next_hop it had (0 when never set), so node 0 may forward to itself.
NodeVars ==
    <<p2p_enabled, mesh_enabled, p2p_mode, routing_table, mesh_seq_num,
      last_beacon_time, time_us, ticks, link_tx, out, main>>

NetSenders == {0, 2}
NetDst == 3
NetHops == {0, 1}

NetIngest(n, h) ==
    /\ net' = [net EXCEPT !.rt[n] =
                  mesh_update_routing_table(@, Beacon(NetDst, h), 0)]
    /\ UNCHANGED NodeVars

\* mesh_send_data at node n, followed by the transmission to the next hop.
NetSend(n) ==
    /\ net.state # "link"
    /\ LET next_hop == mesh_find_route(net.rt[n], NetDst)
       IN  IF next_hop < 0
           THEN net' = [net EXCEPT !.state = "no_route", !.at = n,
                           !.hdr = ZeroHdr, !.forwards = 0]
           ELSE net' = [net EXCEPT
                           !.state = "link", !.at = next_hop, !.forwards = 0,
                           !.hdr = [msg_type |-> MESH_MSG_DATA,
                                    src_node |-> net.rt[n].local_node_id,
                                    dst_node |-> NetDst,
                                    hop_count |-> 0,
                                    seq_num |-> 0,
                                    payload_len |-> 3]]
    /\ UNCHANGED NodeVars

\* The node the packet was sent to receives it and calls mesh_route_packet;
\* a forwarded packet is transmitted to the next hop.
NetReceive ==
    /\ net.state = "link"
    /\ LET r == mesh_route_packet(net.rt[net.at], net.hdr)
       IN  net' = IF r.delivered THEN [net EXCEPT !.state = "delivered"]
                  ELSE IF ~r.ret THEN [net EXCEPT !.state = "dropped"]
                  ELSE [net EXCEPT !.hdr = r.pkt, !.at = r.next_hop,
                                   !.forwards = @ + 1]
    /\ UNCHANGED NodeVars

NextMesh ==
    \/ \E n \in NetSenders, h \in NetHops : NetIngest(n, h)
    \/ \E n \in NetSenders : NetSend(n)
    \/ NetReceive

SpecMesh == Init /\ [][NextMesh]_vars /\ WF_vars(NetReceive)

SpecLive ==
    /\ Init
    /\ [][NextLive]_vars
    /\ WF_vars(LiveTick)
    /\ WF_vars(LiveHandler)

(***************************************************************************)
(* Properties.                                                             *)
(***************************************************************************)
rt == routing_table

Used == 0 .. rt.node_count - 1

\* The entry of node n (Known(n) assumed).
EntryOf(n) == rt.nodes[FindNode(rt, n)]

\* Indices of the active entries of node n.
ActiveOf(n) == {i \in Used : rt.nodes[i].node_id = n /\ rt.nodes[i].is_active}

Ingested == out.op = "mesh_update_routing_table"

Routed == out.op = "mesh_route_packet"

\* C1: after a beacon of node N has been ingested and N has an entry, that
\* entry has hop_count 1 and next_hop N, whatever hop count the beacon's
\* header carries.
C1_DirectBeaconHopOne ==
    (Ingested /\ Known(out.beacon.node_id)) =>
        /\ EntryOf(out.beacon.node_id).hop_count = 1
        /\ EntryOf(out.beacon.node_id).next_hop = out.beacon.node_id

\* C2: the routing table never holds two active entries with the same
\* node_id.
C2_UniqueActiveNodeIds ==
    \A i, j \in Used :
        (i # j /\ rt.nodes[i].is_active /\ rt.nodes[j].is_active)
            => rt.nodes[i].node_id # rt.nodes[j].node_id

\* C2 witness: a second beacon of the node in slot 0 was ingested after the
\* entry in slot 1 had been created and had expired.
C2_Witness ==
    /\ Ingested
    /\ rt.node_count >= 2
    /\ rt.nodes[0].node_id = out.beacon.node_id
    /\ rt.nodes[0].is_active
    /\ rt.nodes[0].last_update > rt.nodes[1].last_update
    /\ ~rt.nodes[1].is_active

\* C3: no routing table entry has the local node id or the broadcast id
\* 0xFF as its node_id.
C3_NoLocalOrBroadcastEntry ==
    \A i \in Used : rt.nodes[i].node_id \notin {rt.local_node_id, BROADCAST}

\* C4: mesh_find_route(d) returns -1 exactly when the table has no active
\* entry for d, and otherwise the next_hop of an active entry for d.
C4_FindRouteExact ==
    out.op = "mesh_find_route" =>
        /\ (out.next_hop = -1) <=> (ActiveOf(out.dst) = {})
        /\ ActiveOf(out.dst) # {} =>
               \E i \in ActiveOf(out.dst) : out.next_hop = rt.nodes[i].next_hop

\* C5: a packet addressed to the local node is delivered to the local data
\* handler with a success result whatever its hop_count and whatever the
\* table holds; it is not forwarded and its header is untouched.
C5_LocalAlwaysDelivered ==
    (Routed /\ out.pkt_in.dst_node = rt.local_node_id) =>
        /\ out.ret = "true"
        /\ out.delivered
        /\ out.branch = "local"
        /\ out.pkt = out.pkt_in
        /\ link_tx = <<>>

\* C5 witness: a packet for the local node arrived with hop_count 255 while
\* the table held an active entry.
C5_Witness ==
    /\ Routed
    /\ out.pkt_in.dst_node = rt.local_node_id
    /\ out.pkt_in.hop_count = 255
    /\ out.delivered
    /\ \E i \in Used : rt.nodes[i].is_active

\* C6: a packet for another node with hop_count >= MESH_MAX_HOPS is dropped
\* with a failure result, not forwarded, and its header is unmodified.
C6_HopLimitDrops ==
    (/\ Routed
     /\ out.pkt_in.dst_node # rt.local_node_id
     /\ out.pkt_in.hop_count >= MESH_MAX_HOPS) =>
        /\ out.ret = "false"
        /\ out.branch = "hop_limit"
        /\ ~out.delivered
        /\ out.pkt = out.pkt_in
        /\ link_tx = <<>>

\* C6 witness: a packet with hop_count exactly MESH_MAX_HOPS was dropped
\* although mesh_find_route has a next hop for its destination.
C6_Witness ==
    /\ Routed
    /\ out.pkt_in.dst_node # rt.local_node_id
    /\ out.pkt_in.hop_count = MESH_MAX_HOPS
    /\ out.ret = "false"
    /\ mesh_find_route(rt, out.pkt_in.dst_node) >= 0

\* C7: a forwarded packet leaves with hop_count one greater, its other
\* header fields unchanged, and is handed to the link layer for unicast to
\* the next hop mesh_find_route returned.
C7_ForwardHandsToLink ==
    (Routed /\ out.branch = "forward") =>
        /\ out.pkt = [out.pkt_in EXCEPT !.hop_count = @ + 1]
        /\ out.next_hop = mesh_find_route(rt, out.pkt_in.dst_node)
        /\ Len(link_tx) > 0
        /\ link_tx[Len(link_tx)] = [to |-> out.next_hop, hdr |-> out.pkt]

\* C8: a packet for another node, below the hop limit, whose destination
\* has no active entry is dropped with a failure result; its header, the
\* routing table and the sequence counter are unchanged.
C8_NoRouteDropsUnchanged ==
    [][(/\ out'.op = "mesh_route_packet"
        /\ out'.pkt_in.dst_node # rt.local_node_id
        /\ out'.pkt_in.hop_count < MESH_MAX_HOPS
        /\ ActiveOf(out'.pkt_in.dst_node) = {}) =>
           /\ out'.ret = "false"
           /\ out'.branch = "no_route"
           /\ ~out'.delivered
           /\ out'.pkt = out'.pkt_in
           /\ routing_table' = routing_table
           /\ mesh_seq_num' = mesh_seq_num
           /\ link_tx' = link_tx]_vars

\* C8 witness: a packet for node 4 was dropped for want of a route while
\* the table held an active entry and a sequence number had been used.
C8_Witness ==
    /\ Routed
    /\ out.branch = "no_route"
    /\ out.pkt_in.hop_count = MESH_MAX_HOPS - 1
    /\ ActiveOf(out.pkt_in.dst_node) = {}
    /\ \E i \in Used : rt.nodes[i].is_active
    /\ mesh_seq_num > 0

C10_EntriesNeverRemoved ==
    [][~MeshInit(MESH_NODE_ID) =>
           /\ rt.node_count <= routing_table'.node_count
           /\ routing_table'.node_count <= MESH_MAX_NODES
           /\ \A i \in Used :
                  routing_table'.nodes[i].node_id = rt.nodes[i].node_id
           /\ rt.node_count = MESH_MAX_NODES =>
                  {routing_table'.nodes[i].node_id :
                       i \in 0 .. routing_table'.node_count - 1}
                      = {rt.nodes[i].node_id : i \in Used}]_vars

\* C10 witness: the table is full, every entry has expired, and a beacon of
\* a node outside the table has just been ingested without creating an entry.
C10_Witness ==
    /\ Ingested
    /\ rt.node_count = MESH_MAX_NODES
    /\ \A i \in Used : ~rt.nodes[i].is_active
    /\ ~Known(out.beacon.node_id)

(***************************************************************************)
(* C11.  A beacon from a node whose entry a sweep has made inactive makes  *)
(* that entry active again in the same ingest step, with last_update set   *)
(* to the time of the ingest; no second entry is created and node_count    *)
(* stays as it was.                                                        *)
(***************************************************************************)
C11_RevivalImmediate ==
    [][\A b \in TimeBeacons :
          (/\ MeshUpdateRoutingTable(b)
           /\ Known(b.node_id)
           /\ ~EntryOf(b.node_id).is_active)
          => LET i == FindNode(routing_table, b.node_id)
             IN  /\ routing_table'.nodes[i].is_active
                 /\ routing_table'.nodes[i].last_update = now
                 /\ routing_table'.nodes[i].node_id = b.node_id
                 /\ routing_table'.node_count = routing_table.node_count
                 /\ \A j \in 0 .. routing_table'.node_count - 1 :
                        routing_table'.nodes[j].node_id = b.node_id => j = i]_vars

\* An ingest has just revived the entry of node 2, which a sweep had made
\* inactive after more than MESH_ROUTE_TIMEOUT ms.
C11_Witness ==
    /\ Ingested
    /\ out.branch = "revive"
    /\ out.beacon.node_id = 2
    /\ ActiveOf(2) # {}
    /\ EntryOf(2).last_update = now
    /\ now > MESH_ROUTE_TIMEOUT

(***************************************************************************)
(* C12.  The expiry loop of mesh_beacon_handler, run at time now with the  *)
(* mesh enabled, makes inactive exactly the active entries with            *)
(* now - last_update > MESH_ROUTE_TIMEOUT (an entry aged exactly           *)
(* MESH_ROUTE_TIMEOUT stays active) and changes no other field of any      *)
(* entry, nor node_count.  The clock does not wrap in SpecTime, so the     *)
(* difference is the plain one.                                            *)
(***************************************************************************)
C12_SweepExact ==
    [][(MeshBeaconHandler /\ mesh_enabled)
       => /\ routing_table'.node_count = routing_table.node_count
          /\ routing_table'.local_node_id = routing_table.local_node_id
          /\ \A i \in 0 .. MESH_MAX_NODES - 1 :
                LET e  == routing_table.nodes[i]
                    e2 == routing_table'.nodes[i]
                    expired == /\ i < routing_table.node_count
                               /\ e.is_active
                               /\ now - e.last_update > MESH_ROUTE_TIMEOUT
                IN  /\ e2 = [e EXCEPT !.is_active = e2.is_active]
                    /\ e2.is_active = (e.is_active /\ ~expired)]_vars

\* The handler has just run at the present time (it sent its beacon now):
\* the entry of node 2, aged exactly MESH_ROUTE_TIMEOUT, is still active and
\* is advertised in the beacon.
C12_Witness ==
    /\ out.op = "mesh_beacon_handler"
    /\ out.branch = "beacon"
    /\ mesh_enabled
    /\ last_beacon_time = now
    /\ ActiveOf(2) # {}
    /\ now - EntryOf(2).last_update = MESH_ROUTE_TIMEOUT
    /\ out.beacon.neighbors = <<2>>

(***************************************************************************)
(* C13.  mesh_send_data to a destination without an active entry returns   *)
(* false at once and changes nothing: the routing table, the sequence      *)
(* counter, last_beacon_time and the link queue are as before.  With the   *)
(* mesh enabled it returns true exactly when mesh_find_route(dst_node)     *)
(* yields a next hop.                                                      *)
(***************************************************************************)
C13_SendDataNoRoute ==
    [][\A d \in PacketDsts :
          MeshSendData(d, 3)
          => /\ ActiveOf(d) = {}
                => /\ out'.ret = "false"
                   /\ UNCHANGED <<routing_table, mesh_seq_num,
                                  last_beacon_time, link_tx>>
             /\ out'.ret = "false"
                => UNCHANGED <<routing_table, mesh_seq_num,
                               last_beacon_time, link_tx>>
             /\ mesh_enabled
                => (out'.ret = "true"
                    <=> mesh_find_route(routing_table, d) >= 0)]_vars

\* mesh_send_data has just failed with the mesh enabled: the destination has
\* an entry, which a sweep has made inactive.
C13_Witness ==
    /\ out.op = "mesh_send_data"
    /\ out.ret = "false"
    /\ out.branch = "no_route"
    /\ mesh_enabled
    /\ Known(out.dst)
    /\ ActiveOf(out.dst) = {}

(***************************************************************************)
(* C14.  A data packet that mesh_send_data has accepted leaves the node    *)
(* with hop_count = 1: it started at 0 and went through the hop increment  *)
(* of a forwarded packet, so that hop_count counts the links the packet    *)
(* has been sent over, the first included.                                 *)
(***************************************************************************)
C14_OriginatedLeavesWithHopOne ==
    (out.op = "mesh_send_data" /\ out.ret = "true")
    => out.pkt.hop_count = 1

(***************************************************************************)
(* C16.  A beacon built by mesh_send_beacon carries the local node id as   *)
(* src_node and node_id, destination 0xFF, and as neighbours exactly the   *)
(* node ids of the entries that are active with hop_count = 1 when it is   *)
(* built, each once; neighbor_count is their number and is at most         *)
(* MESH_MAX_NODES.                                                         *)
(***************************************************************************)
BeaconBuilt ==
    \/ out.op = "mesh_send_beacon" /\ out.ret = "true"
    \/ out.op = "mesh_beacon_handler" /\ out.branch = "beacon"

DirectActive == {i \in Used : rt.nodes[i].is_active /\ rt.nodes[i].hop_count = 1}

C16_BeaconContents ==
    BeaconBuilt
    => LET b == out.beacon
       IN  /\ b.hdr.msg_type = MESH_MSG_BEACON
           /\ b.hdr.src_node = rt.local_node_id
           /\ b.node_id = rt.local_node_id
           /\ b.hdr.dst_node = 255
           /\ {b.neighbors[k] : k \in 1 .. Len(b.neighbors)}
                  = {rt.nodes[i].node_id : i \in DirectActive}
           /\ \A k, l \in 1 .. Len(b.neighbors) :
                  b.neighbors[k] = b.neighbors[l] => k = l
           /\ b.neighbor_count = Cardinality(DirectActive)
           /\ b.neighbor_count = Len(b.neighbors)
           /\ b.neighbor_count <= MESH_MAX_NODES

\* mesh_send_beacon has just built a beacon that names node 2 alone, while
\* the table also holds the two-hop entry of node 3.
C16_Witness ==
    /\ out.op = "mesh_send_beacon"
    /\ out.ret = "true"
    /\ out.beacon.neighbors = <<2>>
    /\ Known(3)
    /\ ActiveOf(3) # {}

\* The handler has just sent a beacon without neighbours: the entry of the
\* direct neighbour 2 had expired.
C16_WitnessExpired ==
    /\ out.op = "mesh_beacon_handler"
    /\ out.branch = "beacon"
    /\ out.beacon.neighbors = <<>>
    /\ Known(2)
    /\ EntryOf(2).hop_count = 1
    /\ ActiveOf(2) = {}

(***************************************************************************)
(* C17.  mesh_find_route, mesh_send_data, mesh_route_packet,               *)
(* mesh_send_beacon, mesh_enable and mesh_disable leave every entry and    *)
(* node_count unchanged.  An ingest never makes an entry inactive, and the *)
(* entry it writes is active.  Apart from mesh_init, which clears the      *)
(* table, an entry changes only in an ingest or in a handler step, and the *)
(* handler only turns an active entry inactive; node_count changes only in *)
(* an ingest.                                                              *)
(***************************************************************************)
ReadOnlyCall ==
    \/ MeshFindRoute(2)
    \/ \E d \in ApiDsts : MeshSendData(d, 3)
    \/ \E d \in ApiDsts : MeshRoutePacket(Packet(d, 0))
    \/ MeshSendBeacon
    \/ MeshEnable
    \/ MeshDisable

IngestCall == \E b \in ApiBeacons : MeshUpdateRoutingTable(b)

C17_TableWriters ==
    [][/\ ReadOnlyCall => routing_table' = routing_table
       /\ IngestCall
          => \A i \in 0 .. MESH_MAX_NODES - 1 :
                LET e  == routing_table.nodes[i]
                    e2 == routing_table'.nodes[i]
                IN  /\ e.is_active => e2.is_active
                    /\ e2 # e => e2.is_active
       /\ ~MeshInit(MESH_NODE_ID)
          => /\ routing_table'.node_count # routing_table.node_count
                => IngestCall
             /\ \A i \in 0 .. MESH_MAX_NODES - 1 :
                   LET e  == routing_table.nodes[i]
                       e2 == routing_table'.nodes[i]
                   IN  e2 # e
                       => \/ IngestCall
                          \/ /\ MeshBeaconHandler
                             /\ e.is_active
                             /\ e2 = [e EXCEPT !.is_active = FALSE]]_vars

\* mesh_route_packet has just forwarded a packet over a table that holds
\* the entries of nodes 2 and 3, both active as the ingests left them.
C17_Witness ==
    /\ Routed
    /\ out.branch = "forward"
    /\ rt.node_count = 2
    /\ ActiveOf(2) # {}
    /\ ActiveOf(3) # {}
    /\ EntryOf(3).hop_count = 2

(***************************************************************************)
(* C18.  While the mesh is not enabled, mesh_send_beacon, mesh_send_data,  *)
(* mesh_route_packet, mesh_update_routing_table and mesh_beacon_handler    *)
(* fail or do nothing: nothing is delivered or forwarded, no call returns  *)
(* true, and the routing table, the sequence counter and last_beacon_time  *)
(* stay as they are.                                                       *)
(***************************************************************************)
MeshCall ==
    \/ MeshSendBeacon
    \/ \E d \in ApiDsts : MeshSendData(d, 3)
    \/ \E d \in ApiDsts : MeshRoutePacket(Packet(d, 0))
    \/ IngestCall
    \/ MeshBeaconHandler

C18_DisabledIsNoOp ==
    [][(~mesh_enabled /\ MeshCall)
       => /\ UNCHANGED <<routing_table, mesh_seq_num, last_beacon_time>>
          /\ ~out'.delivered
          /\ out'.branch # "forward"
          /\ out'.ret # "true"]_vars

(***************************************************************************)
(* C19.  With the mesh enabled and the loop calling mesh_beacon_handler as *)
(* time advances, the entry of a node that has stopped sending beacons     *)
(* becomes inactive in the end; and whenever the node has no active entry, *)
(* mesh_find_route toward it returns -1 and mesh_send_data and             *)
(* mesh_route_packet toward it return false.                               *)
(***************************************************************************)
C19_SilentNodeExpires ==
    /\ (mesh_enabled /\ ActiveOf(2) # {}) ~> (ActiveOf(2) = {})
    /\ [][ActiveOf(2) = {}
          => /\ MeshFindRoute(2) => out'.next_hop = -1
             /\ MeshSendData(2, 3) => out'.ret = "false"
             /\ MeshRoutePacket(Packet(2, 0)) => out'.ret = "false"]_vars

\* The entry of node 2 has expired after more than MESH_ROUTE_TIMEOUT ms
\* without a beacon, and mesh_send_data toward node 2 has just failed.
C19_Witness ==
    /\ mesh_enabled
    /\ Known(2)
    /\ ActiveOf(2) = {}
    /\ now - EntryOf(2).last_update > MESH_ROUTE_TIMEOUT
    /\ out.op = "mesh_send_data"
    /\ out.dst = 2
    /\ out.ret = "false"
    /\ out.branch = "no_route"

(***************************************************************************)
(* C15.  In a mesh of nodes that each run mesh_send_data and               *)
(* mesh_route_packet, whatever the routing tables (forwarding loops        *)
(* included): the hop_count of a packet never decreases, is at most        *)
(* MESH_MAX_HOPS on every link, the packet is forwarded at most            *)
(* MESH_MAX_HOPS times, and a packet on a link is delivered or dropped in  *)
(* the end.                                                                *)
(***************************************************************************)
C15_HopBoundAndTermination ==
    /\ [](net.state = "link"
           => /\ net.hdr.hop_count <= MESH_MAX_HOPS
              /\ net.at \in NetNodes)
    /\ [](net.forwards <= MESH_MAX_HOPS)
    /\ [][NetReceive => /\ net'.hdr.hop_count >= net.hdr.hop_count
                        /\ net'.hdr.hop_count <= net.hdr.hop_count + 1]_vars
    /\ (net.state = "link") ~> (net.state \in {"delivered", "dropped"})

\* A packet caught in the loop at node 0 has been dropped there after
\* MESH_MAX_HOPS forwards.
C15_Witness ==
    /\ net.state = "dropped"
    /\ net.at = 0
    /\ net.forwards = MESH_MAX_HOPS
    /\ net.hdr.hop_count = MESH_MAX_HOPS
    /\ mesh_find_route(net.rt[0], NetDst) = 0

\* A packet from node 2 has been delivered at node 3.
C15_WitnessDelivered ==
    /\ net.state = "delivered"
    /\ net.at = NetDst
    /\ net.hdr.src_node = 2

(***************************************************************************)
(* C20.  In the main loop, two consecutive beacon emissions of the node    *)
(* are more than MESH_BEACON_INTERVAL ms apart, and an emission sets       *)
(* last_beacon_time to the time of the emission.  An emission is a step    *)
(* that takes a sequence number; before the second and later emissions     *)
(* last_beacon_time holds the time of the emission before.                 *)
(***************************************************************************)
C20_BeaconsSpaced ==
    [][(mesh_seq_num' # mesh_seq_num /\ mesh_seq_num > 0)
       => /\ last_beacon_time' = now
          /\ last_beacon_time' - last_beacon_time > MESH_BEACON_INTERVAL]_vars

(***************************************************************************)
(* C21.  mesh_init sets the sequence counter to 0.  A mesh_send_beacon     *)
(* (called directly or by mesh_beacon_handler) or mesh_send_data that      *)
(* succeeds stamps its header with the counter and then advances the       *)
(* counter by 1 modulo 2^16; a call that fails leaves the counter alone;   *)
(* nothing else changes the counter.  So the counter goes through all 2^16 *)
(* values before one comes back.                                           *)
(***************************************************************************)
SeqNext == IF mesh_seq_num = U16 - 1 THEN 0 ELSE mesh_seq_num + 1

DataSent == \E d \in ApiDsts : MeshSendData(d, 3)

C21_SequenceCounter ==
    [][/\ MeshInit(MESH_NODE_ID) => mesh_seq_num' = 0
       /\ (MeshSendBeacon /\ out'.ret = "true")
          => /\ out'.beacon.hdr.seq_num = mesh_seq_num
             /\ mesh_seq_num' = SeqNext
       /\ (MeshBeaconHandler /\ out'.branch = "beacon")
          => /\ out'.beacon.hdr.seq_num = mesh_seq_num
             /\ mesh_seq_num' = SeqNext
       /\ (DataSent /\ out'.ret = "true")
          => /\ out'.pkt.seq_num = mesh_seq_num
             /\ mesh_seq_num' = SeqNext
       /\ ((MeshSendBeacon \/ DataSent) /\ out'.ret = "false")
          => mesh_seq_num' = mesh_seq_num
       /\ mesh_seq_num' # mesh_seq_num
          => \/ MeshInit(MESH_NODE_ID)
             \/ (MeshSendBeacon \/ DataSent) /\ out'.ret = "true"
             \/ MeshBeaconHandler /\ out'.branch = "beacon"
       /\ mesh_seq_num' \in 0 .. U16 - 1]_vars

\* The counter has just wrapped: the data packet sent last carries 2^16 - 1
\* and the counter is 0.
C21_Witness ==
    /\ out.op = "mesh_send_data"
    /\ out.ret = "true"
    /\ out.pkt.seq_num = U16 - 1
    /\ mesh_seq_num = 0

(***************************************************************************)
(* C22.  Every entry of the routing table has hop_count >= 1, whatever     *)
(* 8-bit hop count the header of an ingested beacon carries.               *)
(***************************************************************************)
C22_HopCountAtLeastOne == \A i \in Used : rt.nodes[i].hop_count >= 1

(***************************************************************************)
(* C23.  A next hop returned by mesh_find_route, and so one that           *)
(* mesh_send_data or mesh_route_packet sends to, is the node_id of an      *)
(* entry that is active with hop_count = 1; it is not 0 (unset) and not    *)
(* the local node id.                                                      *)
(***************************************************************************)
NextHopChosen ==
    /\ \/ out.op = "mesh_find_route"
       \/ out.op = "mesh_send_data" /\ out.ret = "true"
       \/ Routed /\ out.branch = "forward"
    /\ out.next_hop >= 0

C23_NextHopIsLiveNeighbour ==
    NextHopChosen
    => /\ \E i \in DirectActive : rt.nodes[i].node_id = out.next_hop
       /\ out.next_hop # 0
       /\ out.next_hop # rt.local_node_id

(***************************************************************************)
(* C24.  The sweep makes an entry inactive only when more than             *)
(* MESH_ROUTE_TIMEOUT ms have really passed since its last_update, and the *)
(* handler sends its periodic beacon only when more than                   *)
(* MESH_BEACON_INTERVAL ms have really passed since last_beacon_time, also *)
(* when the millisecond clock has wrapped in between.  In SpecWrap every   *)
(* reading is taken within a few ms of the wrap, so a reading in the lower *)
(* half of the clock's range was taken after the wrap.                     *)
(***************************************************************************)
RealMs(t) == IF t < WrapMs \div 2 THEN t + WrapMs ELSE t

C24_OnlyAfterRealTimeout ==
    [][MeshBeaconHandler
       => /\ \A i \in 0 .. MESH_MAX_NODES - 1 :
                (routing_table.nodes[i].is_active
                 /\ ~routing_table'.nodes[i].is_active)
                => RealMs(now) - RealMs(routing_table.nodes[i].last_update)
                       > MESH_ROUTE_TIMEOUT
          /\ out'.branch = "beacon"
                => RealMs(now) - RealMs(last_beacon_time)
                       > MESH_BEACON_INTERVAL]_vars

(***************************************************************************)
(* C25.  In every reachable state mesh_enabled implies p2p_enabled,        *)
(* whatever the order of p2p_enable, p2p_disable, mesh_init, mesh_enable   *)
(* and mesh_disable calls and whether the radio commands succeed or fail.  *)
(***************************************************************************)
C25_MeshImpliesP2p == mesh_enabled => p2p_enabled

====
